---- MODULE Spec2Model ----
(***************************************************************************)
(* Model of the RAM-disk file system of src/file_system.py: the FileSystem *)
(* object (namespace tree, current path, free map, FAT, open-file table,   *)
(* RAM disk), the two files it persists to, and one action per command of  *)
(* the prompt.                                                             *)
(*                                                                         *)
(* The namespace is a heap of node objects (id 0 is the root directory):   *)
(* Python dictionaries are objects, and the open-file table and the local  *)
(* variables of mv hold references to them, so aliasing is kept.           *)
(* Lists are 0-based as in Python: functions over 0..n-1.  Byte strings    *)
(* are sequences of bytes.  The disk geometry is scaled down.              *)
(***************************************************************************)
EXTENDS Integers, Sequences, FiniteSets, TLC

\* ---------------------------------------------------------------- geometry
BLOCK_SIZE == 2
DISK_SIZE == 4
NUM_BLOCKS == DISK_SIZE \div BLOCK_SIZE

\* ------------------------------------------------------------------ bounds
MaxNodes == 3
MaxPathLen == 2

Names == {"d", "f"}
\* mkdir is given the names of DirNames and create those of FileNames; mv
\* gives any node any name of Names
DirNames == {"d"}
FileNames == {"f"}
Blocks == 0 .. (NUM_BLOCKS - 1)
NodeIds == 0 .. MaxNodes
MaxLen == DISK_SIZE + 1

Min(a, b) == IF a < b THEN a ELSE b
Max(a, b) == IF a > b THEN a ELSE b
\* math.ceil(a / b) for a >= 0, b > 0
Ceil(a, b) == (a + b - 1) \div b

\* payloads of write: two byte patterns whose blocks differ, of every length
\* up to one byte more than the disk holds
Pattern(L, k) == [i \in 1 .. L |-> ((i + k) % 3) + 1]
Lengths == 0 .. MaxLen
AllPayloads == {Pattern(L, k) : L \in Lengths, k \in 0 .. 1}
\* the payloads the write command is run with
Payloads == {Pattern(L, 0) : L \in {0, 1, BLOCK_SIZE + 1, DISK_SIZE}}
              \cup {Pattern(1, 1)}

\* a path argument of mv, already cut at "/" (path.strip("/").split("/")):
\* "/" is the absolute path without parts, "." the relative path <<".">>
Path(abs, parts) == [abs |-> abs, parts |-> parts]
NameSeqs == UNION {[1 .. n -> Names] : n \in 1 .. MaxPathLen}
PathInputs == {Path(a, p) : a \in BOOLEAN, p \in NameSeqs}
                \cup {Path(TRUE, <<>>), Path(FALSE, <<".">>)}
\* the paths the mv command is run with: d, f, /d, /f and d, f, /, ., /f, d/f
SrcPaths == {Path(a, <<n>>) : a \in BOOLEAN, n \in Names}
DstPaths == {Path(FALSE, <<n>>) : n \in Names}
              \cup {Path(TRUE, <<>>), Path(FALSE, <<".">>),
                    Path(TRUE, <<"f">>), Path(FALSE, <<"d", "f">>)}

\* ------------------------------------------------------------------- nodes
NoNode == [type |-> "none"]
DirNode(name, ch) == [type |-> "dir", name |-> name, children |-> ch]
FileNode(name, size, fb) ==
    [type |-> "file", name |-> name, size |-> size, first_block |-> fb]
NoChildren == [n \in {} |-> 0]

None == -1
NoneName == "<None>"
NoFile == [present |-> FALSE]

\* the object the constructor builds (FileSystem.__init__)
FreshFS ==
    [nodes |-> [i \in NodeIds |-> IF i = 0 THEN DirNode("/", NoChildren) ELSE NoNode],
     current_path |-> <<>>,
     free_map |-> [i \in Blocks |-> TRUE],
     fat |-> [i \in Blocks |-> -2],
     open_file_table |-> [n \in {} |-> 0],
     disk_mem |-> [i \in 0 .. (DISK_SIZE - 1) |-> 0]]

VARIABLES nodes, current_path, free_map, fat, open_file_table, disk_mem,
          meta_file, disk_file, pc

vars == <<nodes, current_path, free_map, fat, open_file_table, disk_mem,
          meta_file, disk_file, pc>>

\* the running object as one value
FS == [nodes |-> nodes, current_path |-> current_path, free_map |-> free_map,
       fat |-> fat, open_file_table |-> open_file_table, disk_mem |-> disk_mem]

\* ------------------------------------------------------------ heap helpers
IsDir(ns, id) == ns[id].type = "dir"
IsFile(ns, id) == ns[id].type = "file"
Kids(ns, id) == ns[id].children
HasChild(ns, id, name) == name \in DOMAIN ns[id].children

\* f with key k bound to v (dict[k] = v) and with key k removed (dict.pop)
Put(f, k, v) == [x \in (DOMAIN f) \cup {k} |-> IF x = k THEN v ELSE f[x]]
Del(f, k) == [x \in (DOMAIN f) \ {k} |-> f[x]]

RECURSIVE ReachFrom(_, _)
ReachFrom(ns, S) ==
    LET T == S \cup UNION {{Kids(ns, i)[n] : n \in DOMAIN Kids(ns, i)} :
                             i \in {j \in S : IsDir(ns, j)}}
    IN IF T = S THEN S ELSE ReachFrom(ns, T)

\* the nodes of the tree rooted at /
TreeIds(ns) == ReachFrom(ns, {0})

\* objects nothing refers to any more are collected
Collect(ns, oft) ==
    LET live == TreeIds(ns) \cup {oft[k] : k \in DOMAIN oft}
    IN [i \in NodeIds |-> IF i \in live THEN ns[i] ELSE NoNode]

FreeIds(ns) == {i \in NodeIds : ns[i] = NoNode}
NewId(ns) == CHOOSE i \in FreeIds(ns) : \A j \in FreeIds(ns) : i <= j

RECURSIVE Locate(_, _, _, _, _)
\* the id in nn of the node that has id target in ns, walking both trees
\* from o and n in step; None when target is not below o
Locate(ns, nn, o, n, target) ==
    IF o = target THEN n
    ELSE IF ~IsDir(ns, o) THEN None
    ELSE LET S == {Locate(ns, nn, Kids(ns, o)[c], Kids(nn, n)[c], target) :
                     c \in DOMAIN Kids(ns, o)} \ {None}
         IN IF S = {} THEN None ELSE CHOOSE x \in S : TRUE

\* list[i] with Python's negative indices
PyIndex(list, i) == IF i < 0 THEN list[i + NUM_BLOCKS] ELSE list[i]

\* ------------------------------------------------------------ path helpers
RECURSIVE WalkPath(_, _, _)
\* node = node["children"][part] for every part; -2 stands for KeyError
WalkPath(ns, id, parts) ==
    IF parts = <<>> THEN id
    ELSE IF IsDir(ns, id) /\ HasChild(ns, id, Head(parts))
         THEN WalkPath(ns, Kids(ns, id)[Head(parts)], Tail(parts))
         ELSE -2

GetCurrentDirNode(fs) == WalkPath(fs.nodes, 0, fs.current_path)

\* the current directory can be used: the walk succeeds and ends at a node
\* that has children (a later node["children"] raises KeyError otherwise)
CurDirUsable(fs) ==
    /\ GetCurrentDirNode(fs) # -2
    /\ IsDir(fs.nodes, GetCurrentDirNode(fs))

RECURSIVE ResolveWalk(_, _, _)
\* the loop over parts[:-1]: None when a part is missing or not a directory
ResolveWalk(ns, id, parts) ==
    IF Len(parts) <= 1 THEN id
    ELSE IF HasChild(ns, id, Head(parts)) /\ IsDir(ns, Kids(ns, id)[Head(parts)])
         THEN ResolveWalk(ns, Kids(ns, id)[Head(parts)], Tail(parts))
         ELSE None

Resolved(node, name) == [raised |-> FALSE, node |-> node, name |-> name]
ResolveRaised == [raised |-> TRUE, node |-> None, name |-> NoneName]

ResolvePath(fs, path) ==
    IF path.abs
    THEN IF path.parts = <<>>
         THEN Resolved(None, "/")
         ELSE LET node == ResolveWalk(fs.nodes, 0, path.parts)
              IN IF node = None THEN Resolved(None, NoneName)
                 ELSE Resolved(node, path.parts[Len(path.parts)])
    ELSE LET cur == GetCurrentDirNode(fs)
         IN IF cur = -2 THEN ResolveRaised
            ELSE IF path.parts = <<".">> THEN Resolved(None, ".")
            ELSE IF Len(path.parts) > 1 /\ ~IsDir(fs.nodes, cur) THEN ResolveRaised
            ELSE LET node == ResolveWalk(fs.nodes, cur, path.parts)
                 IN IF node = None THEN Resolved(None, NoneName)
                    ELSE Resolved(node, path.parts[Len(path.parts)])

\* ---------------------------------------------------- block + FAT helpers
\* [i for i, is_free in enumerate(self.free_map) if is_free]
FreeIndices(fm) == {i \in DOMAIN fm : fm[i]}
FreeCount(fm) == Cardinality(FreeIndices(fm))

RECURSIVE LowestFirst(_, _)
\* free_indices[:n]: the n lowest indices of S in ascending order
LowestFirst(S, n) ==
    IF n = 0 \/ S = {} THEN <<>>
    ELSE LET m == CHOOSE i \in S : \A j \in S : i <= j
         IN <<m>> \o LowestFirst(S \ {m}, n - 1)

\* ok = FALSE stands for the None that _allocate_blocks returns
Allocation(fm, ft, ok, allocated) ==
    [free_map |-> fm, fat |-> ft, ok |-> ok, allocated |-> allocated]

\* AllocateBlocks taking what is free before it finds that it is too little
AllocateBlocksPartial(fm, ft, n) ==
    LET free_indices == FreeIndices(fm) IN
    IF Cardinality(free_indices) < n
    THEN Allocation([i \in DOMAIN fm |-> FALSE],
                    [i \in DOMAIN ft |-> IF i \in free_indices THEN -1 ELSE ft[i]],
                    FALSE, <<>>)
    ELSE LET allocated == LowestFirst(free_indices, n)
             taken == {allocated[k] : k \in 1 .. Len(allocated)}
             fm1 == [i \in DOMAIN fm |-> IF i \in taken THEN FALSE ELSE fm[i]]
             ft1 == [i \in DOMAIN ft |->
                       IF \E k \in 1 .. (Len(allocated) - 1) : allocated[k] = i
                       THEN allocated[(CHOOSE k \in 1 .. (Len(allocated) - 1) :
                                         allocated[k] = i) + 1]
                       ELSE IF i \in taken THEN -1 ELSE ft[i]]
         IN Allocation(fm1, ft1, TRUE, allocated)

\* AllocateBlocks taking the last n free indices (free_indices[-n:])
AllocateBlocksHighest(fm, ft, n) ==
    LET free_indices == FreeIndices(fm) IN
    IF Cardinality(free_indices) < n THEN Allocation(fm, ft, FALSE, <<>>)
    ELSE LET skipped == LowestFirst(free_indices, Cardinality(free_indices) - n)
             allocated == LowestFirst(free_indices \
                                        {skipped[k] : k \in 1 .. Len(skipped)}, n)
             taken == {allocated[k] : k \in 1 .. Len(allocated)}
             fm1 == [i \in DOMAIN fm |-> IF i \in taken THEN FALSE ELSE fm[i]]
             ft1 == [i \in DOMAIN ft |->
                       IF \E k \in 1 .. (Len(allocated) - 1) : allocated[k] = i
                       THEN allocated[(CHOOSE k \in 1 .. (Len(allocated) - 1) :
                                         allocated[k] = i) + 1]
                       ELSE IF i \in taken THEN -1 ELSE ft[i]]
         IN Allocation(fm1, ft1, TRUE, allocated)

AllocateBlocks(fm, ft, n) ==
    LET free_indices == FreeIndices(fm) IN
    IF Cardinality(free_indices) < n THEN Allocation(fm, ft, FALSE, <<>>)
    ELSE LET allocated == LowestFirst(free_indices, n)
             taken == {allocated[k] : k \in 1 .. Len(allocated)}
             fm1 == [i \in DOMAIN fm |-> IF i \in taken THEN FALSE ELSE fm[i]]
             ft1 == [i \in DOMAIN ft |->
                       IF \E k \in 1 .. (Len(allocated) - 1) : allocated[k] = i
                       THEN allocated[(CHOOSE k \in 1 .. (Len(allocated) - 1) :
                                         allocated[k] = i) + 1]
                       ELSE IF i \in taken THEN -1 ELSE ft[i]]
         IN Allocation(fm1, ft1, TRUE, allocated)

RECURSIVE ChainTail(_, _)
\* while self.fat[curr] != -1: curr = self.fat[curr]
ChainTail(ft, curr) ==
    IF PyIndex(ft, curr) = -1 THEN curr ELSE ChainTail(ft, PyIndex(ft, curr))

Extension(fm, ft, first) == [free_map |-> fm, fat |-> ft, first |-> first]

ExtendChain(fm, ft, first_block, num_new_blocks) ==
    LET a == AllocateBlocks(fm, ft, num_new_blocks) IN
    IF ~a.ok \/ a.allocated = <<>>
    THEN Extension(a.free_map, a.fat, None)
    ELSE IF first_block = -1
         THEN Extension(a.free_map, a.fat, a.allocated[1])
         ELSE LET curr == ChainTail(a.fat, first_block)
              IN Extension(a.free_map,
                           [a.fat EXCEPT ![curr] = a.allocated[1]],
                           first_block)

RECURSIVE GetBlockChain(_, _)
GetBlockChain(ft, b) ==
    IF b = -1 \/ b = -2 THEN <<>>
    ELSE <<b>> \o GetBlockChain(ft, PyIndex(ft, b))

\* WriteBlock without the padding: bytes past the data stay as they were
WriteBlockNoPad(disk, block_index, data) ==
    LET start == block_index * BLOCK_SIZE IN
    [i \in DOMAIN disk |->
        IF i >= start /\ i < start + BLOCK_SIZE /\ i - start + 1 <= Len(data)
        THEN data[i - start + 1]
        ELSE disk[i]]

\* data[:BLOCK_SIZE].ljust(BLOCK_SIZE, b"\x00") stored at the block's place
WriteBlock(disk, block_index, data) ==
    LET start == block_index * BLOCK_SIZE IN
    [i \in DOMAIN disk |->
        IF i >= start /\ i < start + BLOCK_SIZE
        THEN IF i - start + 1 <= Len(data) THEN data[i - start + 1] ELSE 0
        ELSE disk[i]]

ReadBlock(disk, block_index) ==
    [k \in 1 .. BLOCK_SIZE |-> disk[block_index * BLOCK_SIZE + k - 1]]

RECURSIVE FreeChainKeepFat(_, _, _, _)
\* FreeChain without self.fat[b] = -2
FreeChainKeepFat(fm, ft, disk, b) ==
    IF b = -1 THEN [free_map |-> fm, fat |-> ft, disk_mem |-> disk]
    ELSE LET k == IF b < 0 THEN b + NUM_BLOCKS ELSE b
         IN FreeChainKeepFat([fm EXCEPT ![k] = TRUE], ft,
                             WriteBlock(disk, k, <<>>), PyIndex(ft, b))

\* FreeChain that stops after the first block
FreeChainFirstOnly(fm, ft, disk, b) ==
    IF b = -1 THEN [free_map |-> fm, fat |-> ft, disk_mem |-> disk]
    ELSE LET k == IF b < 0 THEN b + NUM_BLOCKS ELSE b
         IN [free_map |-> [fm EXCEPT ![k] = TRUE], fat |-> [ft EXCEPT ![k] = -2],
             disk_mem |-> WriteBlock(disk, k, <<>>)]

RECURSIVE FreeChain(_, _, _, _)
\* returns the free map, the FAT and the disk after the loop
FreeChain(fm, ft, disk, b) ==
    IF b = -1 THEN [free_map |-> fm, fat |-> ft, disk_mem |-> disk]
    ELSE LET k == IF b < 0 THEN b + NUM_BLOCKS ELSE b
         IN FreeChain([fm EXCEPT ![k] = TRUE], [ft EXCEPT ![k] = -2],
                      WriteBlock(disk, k, <<>>), PyIndex(ft, b))

\* ---------------------------------------------------------- startup / save
RECURSIVE TreeOf(_, _)
\* the document json.dump writes for a node: the node with all it contains
TreeOf(ns, id) ==
    IF IsFile(ns, id)
    THEN [name |-> ns[id].name, type |-> "file", size |-> ns[id].size,
          first_block |-> ns[id].first_block]
    ELSE [name |-> ns[id].name, type |-> "dir",
          children |-> [n \in DOMAIN Kids(ns, id) |-> TreeOf(ns, Kids(ns, id)[n])]]

RECURSIVE Install(_, _, _)
RECURSIVE InstallKids(_, _, _, _)
\* the objects json.load builds for a document, the top one stored at id
Install(ns, id, tree) ==
    IF tree.type = "file"
    THEN [ns EXCEPT ![id] = FileNode(tree.name, tree.size, tree.first_block)]
    ELSE InstallKids([ns EXCEPT ![id] = DirNode(tree.name, NoChildren)],
                     id, tree, DOMAIN tree.children)

InstallKids(ns, id, tree, todo) ==
    IF todo = {} THEN ns
    ELSE LET n == CHOOSE x \in todo : TRUE
             c == NewId(ns)
             ns1 == [ns EXCEPT ![id] = DirNode(ns[id].name, Put(ns[id].children, n, c))]
         IN InstallKids(Install(ns1, c, tree.children[n]), id, tree, todo \ {n})

SaveMetadata(fs) ==
    [present |-> TRUE, block_size |-> BLOCK_SIZE, num_blocks |-> NUM_BLOCKS,
     root |-> TreeOf(fs.nodes, 0), free_map |-> fs.free_map, fat |-> fs.fat]

SaveDiskImage(fs) == [present |-> TRUE, data |-> fs.disk_mem]

ResetFreshState(fs) == FreshFS

LoadMetadata(fs, meta) ==
    [fs EXCEPT !.nodes = Install([i \in NodeIds |-> NoNode], 0, meta.root),
               !.free_map = meta.free_map,
               !.fat = meta.fat]

\* the image, padded with zeros or cut to DISK_SIZE; zeros when absent
LoadDiskImageIfExists(fs, disk) ==
    IF ~disk.present
    THEN [fs EXCEPT !.disk_mem = [i \in 0 .. (DISK_SIZE - 1) |-> 0]]
    ELSE [fs EXCEPT !.disk_mem = [i \in 0 .. (DISK_SIZE - 1) |->
                        IF i \in DOMAIN disk.data THEN disk.data[i] ELSE 0]]

\* the object after init_filesystem and whether it saved
InitFilesystem(fs, meta, disk) ==
    LET fs1 == LoadDiskImageIfExists(fs, disk) IN
    IF meta.present
    THEN [fs |-> LoadMetadata(fs1, meta), saved |-> FALSE]
    ELSE [fs |-> ResetFreshState(fs1), saved |-> TRUE]

\* ---------------------------------------------------------- user operations
\* what a command leaves: the object, the message class, the bytes read,
\* the lines listed, and whether it ran _save_state
Result(fs, res, saved) ==
    [fs |-> fs, res |-> res, out |-> <<>>, found |-> {}, saved |-> saved]
Raised(fs) == Result(fs, "KeyError", FALSE)

\* Mkdir without the _save_state() that ends it
MkdirNoSave(fs, dirname) ==
    LET parent == GetCurrentDirNode(fs) IN
    IF ~CurDirUsable(fs) THEN Raised(fs)
    ELSE IF HasChild(fs.nodes, parent, dirname)
    THEN Result(fs, "already-exists", FALSE)
    ELSE LET c == NewId(fs.nodes)
             ns1 == [fs.nodes EXCEPT
                       ![parent] = DirNode(@.name, Put(@.children, dirname, c)),
                       ![c] = DirNode(dirname, NoChildren)]
         IN Result([fs EXCEPT !.nodes = ns1], "ok", FALSE)

Mkdir(fs, dirname) ==
    LET parent == GetCurrentDirNode(fs) IN
    IF ~CurDirUsable(fs) THEN Raised(fs)
    ELSE IF HasChild(fs.nodes, parent, dirname)
    THEN Result(fs, "already-exists", FALSE)
    ELSE LET c == NewId(fs.nodes)
             ns1 == [fs.nodes EXCEPT
                       ![parent] = DirNode(@.name, Put(@.children, dirname, c)),
                       ![c] = DirNode(dirname, NoChildren)]
         IN Result([fs EXCEPT !.nodes = ns1], "ok", TRUE)

Cd(fs, dirname) ==
    IF dirname = ".."
    THEN IF fs.current_path # <<>>
         THEN Result([fs EXCEPT !.current_path =
                         SubSeq(@, 1, Len(@) - 1)], "ok", FALSE)
         ELSE Result(fs, "ok", FALSE)
    ELSE IF dirname = "/"
    THEN Result([fs EXCEPT !.current_path = <<>>], "ok", FALSE)
    ELSE LET parent == GetCurrentDirNode(fs) IN
         IF ~CurDirUsable(fs) THEN Raised(fs)
         ELSE IF HasChild(fs.nodes, parent, dirname)
         THEN IF IsDir(fs.nodes, Kids(fs.nodes, parent)[dirname])
              THEN Result([fs EXCEPT !.current_path = Append(@, dirname)],
                          "ok", FALSE)
              ELSE Result(fs, "not-a-directory", FALSE)
         ELSE Result(fs, "not-found", FALSE)

Ls(fs) ==
    LET node == GetCurrentDirNode(fs) IN
    IF ~CurDirUsable(fs) THEN Raised(fs)
    ELSE [Result(fs, "ok", FALSE) EXCEPT !.found =
            {[name |-> n, type |-> fs.nodes[Kids(fs.nodes, node)[n]].type,
              size |-> IF IsFile(fs.nodes, Kids(fs.nodes, node)[n])
                       THEN fs.nodes[Kids(fs.nodes, node)[n]].size ELSE 0] :
             n \in DOMAIN Kids(fs.nodes, node)}]

\* CreateFile with "first_block": 0 for the new file
CreateFileZeroHead(fs, filename) ==
    LET parent == GetCurrentDirNode(fs) IN
    IF ~CurDirUsable(fs) THEN Raised(fs)
    ELSE IF HasChild(fs.nodes, parent, filename)
    THEN Result(fs, "already-exists", FALSE)
    ELSE LET c == NewId(fs.nodes)
             ns1 == [fs.nodes EXCEPT
                       ![parent] = DirNode(@.name, Put(@.children, filename, c)),
                       ![c] = FileNode(filename, 0, 0)]
         IN Result([fs EXCEPT !.nodes = ns1], "ok", TRUE)

CreateFile(fs, filename) ==
    LET parent == GetCurrentDirNode(fs) IN
    IF ~CurDirUsable(fs) THEN Raised(fs)
    ELSE IF HasChild(fs.nodes, parent, filename)
    THEN Result(fs, "already-exists", FALSE)
    ELSE LET c == NewId(fs.nodes)
             ns1 == [fs.nodes EXCEPT
                       ![parent] = DirNode(@.name, Put(@.children, filename, c)),
                       ![c] = FileNode(filename, 0, -1)]
         IN Result([fs EXCEPT !.nodes = ns1], "ok", TRUE)

\* OpenAt without the already-open check: the entry is replaced
OpenAtOverwrite(fs, parent, filename) ==
    IF ~HasChild(fs.nodes, parent, filename)
    THEN Result(fs, "not-found", FALSE)
    ELSE LET entry == Kids(fs.nodes, parent)[filename] IN
         IF ~IsFile(fs.nodes, entry) THEN Result(fs, "is-directory", FALSE)
         ELSE Result([fs EXCEPT !.open_file_table = Put(@, filename, entry)],
                     "ok", FALSE)

\* open_file once parent is known; an entry {"pos": 0, "node": entry} is
\* kept as the reference to the node, pos being 0 always
OpenAt(fs, parent, filename) ==
    IF ~HasChild(fs.nodes, parent, filename)
    THEN Result(fs, "not-found", FALSE)
    ELSE LET entry == Kids(fs.nodes, parent)[filename] IN
         IF ~IsFile(fs.nodes, entry) THEN Result(fs, "is-directory", FALSE)
         ELSE IF filename \in DOMAIN fs.open_file_table
         THEN Result(fs, "already-open", FALSE)
         ELSE Result([fs EXCEPT !.open_file_table = Put(@, filename, entry)],
                     "ok", FALSE)

OpenFile(fs, filename) ==
    IF ~CurDirUsable(fs) THEN Raised(fs)
    ELSE OpenAt(fs, GetCurrentDirNode(fs), filename)

CloseFile(fs, filename) ==
    IF filename \in DOMAIN fs.open_file_table
    THEN Result([fs EXCEPT !.nodes = Collect(@, Del(fs.open_file_table, filename)),
                           !.open_file_table = Del(@, filename)], "ok", FALSE)
    ELSE Result(fs, "not-open", FALSE)

RECURSIVE WriteChainNoAdvance(_, _, _, _, _)
\* WriteChain with the offset left where it was (offset += len(chunk) lost)
WriteChainNoAdvance(disk, chain, data_bytes, offset, remaining) ==
    IF chain = <<>> THEN disk
    ELSE IF remaining <= 0
    THEN WriteChainNoAdvance(WriteBlock(disk, Head(chain), <<>>), Tail(chain),
                             data_bytes, offset, remaining)
    ELSE LET chunk == SubSeq(data_bytes, offset + 1,
                             Min(offset + BLOCK_SIZE, Len(data_bytes)))
         IN WriteChainNoAdvance(WriteBlock(disk, Head(chain), chunk), Tail(chain),
                                data_bytes, offset, remaining - Len(chunk))

RECURSIVE WriteChain(_, _, _, _, _)
\* the loop over current_chain: one block-sized chunk per block, empty
\* blocks once nothing remains
WriteChain(disk, chain, data_bytes, offset, remaining) ==
    IF chain = <<>> THEN disk
    ELSE IF remaining <= 0
    THEN WriteChain(WriteBlock(disk, Head(chain), <<>>), Tail(chain),
                    data_bytes, offset, remaining)
    ELSE LET chunk == SubSeq(data_bytes, offset + 1,
                             Min(offset + BLOCK_SIZE, Len(data_bytes)))
         IN WriteChain(WriteBlock(disk, Head(chain), chunk), Tail(chain),
                       data_bytes, offset + Len(chunk), remaining - Len(chunk))

\* BlocksNeeded without the one block an empty payload gets
BlocksNeededNoClamp(total_len) == Ceil(total_len, BLOCK_SIZE)

\* math.ceil(total_len / BLOCK_SIZE), one block for an empty payload
BlocksNeeded(total_len) ==
    IF Ceil(total_len, BLOCK_SIZE) = 0 THEN 1 ELSE Ceil(total_len, BLOCK_SIZE)

\* WriteFile that gives back the blocks a shorter payload no longer needs
WriteFileTruncating(fs, filename, data_bytes) ==
    IF filename \notin DOMAIN fs.open_file_table
    THEN Result(fs, "not-open", FALSE)
    ELSE
    LET entry == fs.open_file_table[filename]
        total_len == Len(data_bytes)
        blocks_needed == BlocksNeeded(total_len)
        first_block == fs.nodes[entry].first_block
        current_count == Len(GetBlockChain(fs.fat, first_block))
        grow == blocks_needed > current_count
        ext == ExtendChain(fs.free_map, fs.fat, first_block,
                           blocks_needed - current_count)
        fs1 == [fs EXCEPT !.free_map = ext.free_map, !.fat = ext.fat]
    IN
    IF grow /\ ext.first = None THEN Result(fs1, "no-space", FALSE)
    ELSE
    LET fs2 == IF grow THEN fs1 ELSE fs
        first1 == IF grow /\ first_block = -1 THEN ext.first ELSE first_block
        current_chain == GetBlockChain(fs2.fat, first1)
        disk1 == WriteChain(fs2.disk_mem, current_chain, data_bytes, 0, total_len)
        cut == {current_chain[k] : k \in (blocks_needed + 1) .. Len(current_chain)}
        fat1 == [i \in DOMAIN fs2.fat |->
                   IF i \in cut THEN -2
                   ELSE IF i = current_chain[blocks_needed] THEN -1
                   ELSE fs2.fat[i]]
        fm1 == [i \in DOMAIN fs2.free_map |-> i \in cut \/ fs2.free_map[i]]
    IN Result([fs2 EXCEPT !.nodes[entry] = FileNode(@.name, total_len, first1),
                          !.disk_mem = disk1, !.fat = fat1, !.free_map = fm1],
              "ok", TRUE)

\* data_bytes is data.encode("utf-8")
WriteFile(fs, filename, data_bytes) ==
    IF filename \notin DOMAIN fs.open_file_table
    THEN Result(fs, "not-open", FALSE)
    ELSE
    LET entry == fs.open_file_table[filename]
        total_len == Len(data_bytes)
        blocks_needed == BlocksNeeded(total_len)
        first_block == fs.nodes[entry].first_block
        current_count == Len(GetBlockChain(fs.fat, first_block))
        grow == blocks_needed > current_count
        ext == ExtendChain(fs.free_map, fs.fat, first_block,
                           blocks_needed - current_count)
        fs1 == [fs EXCEPT !.free_map = ext.free_map, !.fat = ext.fat]
    IN
    IF grow /\ ext.first = None THEN Result(fs1, "no-space", FALSE)
    ELSE
    LET fs2 == IF grow THEN fs1 ELSE fs
        first1 == IF grow /\ first_block = -1 THEN ext.first ELSE first_block
        current_chain == GetBlockChain(fs2.fat, first1)
        disk1 == WriteChain(fs2.disk_mem, current_chain, data_bytes, 0, total_len)
    IN Result([fs2 EXCEPT !.nodes[entry] = FileNode(@.name, total_len, first1),
                          !.disk_mem = disk1], "ok", TRUE)

RECURSIVE ReadChain(_, _, _)
ReadChain(disk, chain, bytes_to_read) ==
    IF chain = <<>> \/ bytes_to_read <= 0 THEN <<>>
    ELSE LET take == Min(BLOCK_SIZE, bytes_to_read)
         IN SubSeq(ReadBlock(disk, Head(chain)), 1, take)
              \o ReadChain(disk, Tail(chain), bytes_to_read - take)

\* out holds the bytes that are decoded and printed
ReadFile(fs, filename) ==
    IF filename \notin DOMAIN fs.open_file_table
    THEN Result(fs, "not-open", FALSE)
    ELSE LET entry == fs.nodes[fs.open_file_table[filename]] IN
         IF entry.first_block = -1 \/ entry.size = 0
         THEN Result(fs, "ok", FALSE)
         ELSE [Result(fs, "ok", FALSE) EXCEPT !.out =
                 ReadChain(fs.disk_mem, GetBlockChain(fs.fat, entry.first_block),
                           entry.size)]

\* DeleteFile without the check that a directory is empty
DeleteFileAnyDir(fs, name) ==
    LET parent == GetCurrentDirNode(fs) IN
    IF ~CurDirUsable(fs) THEN Raised(fs)
    ELSE IF ~HasChild(fs.nodes, parent, name) THEN Result(fs, "not-found", FALSE)
    ELSE
    LET entry == Kids(fs.nodes, parent)[name]
        freed == IF IsFile(fs.nodes, entry) /\ fs.nodes[entry].first_block # -1
                 THEN FreeChain(fs.free_map, fs.fat, fs.disk_mem,
                                fs.nodes[entry].first_block)
                 ELSE [free_map |-> fs.free_map, fat |-> fs.fat,
                       disk_mem |-> fs.disk_mem]
        ns1 == [fs.nodes EXCEPT ![parent] = DirNode(@.name, Del(@.children, name))]
        oft1 == Del(fs.open_file_table, name)
    IN Result([fs EXCEPT !.nodes = Collect(ns1, oft1),
                         !.open_file_table = oft1,
                         !.free_map = freed.free_map,
                         !.fat = freed.fat,
                         !.disk_mem = freed.disk_mem], "ok", TRUE)

DeleteFile(fs, name) ==
    LET parent == GetCurrentDirNode(fs) IN
    IF ~CurDirUsable(fs) THEN Raised(fs)
    ELSE IF ~HasChild(fs.nodes, parent, name) THEN Result(fs, "not-found", FALSE)
    ELSE
    LET entry == Kids(fs.nodes, parent)[name] IN
    IF IsDir(fs.nodes, entry) /\ DOMAIN Kids(fs.nodes, entry) # {}
    THEN Result(fs, "not-empty", FALSE)
    ELSE
    LET freed == IF IsFile(fs.nodes, entry) /\ fs.nodes[entry].first_block # -1
                 THEN FreeChain(fs.free_map, fs.fat, fs.disk_mem,
                                fs.nodes[entry].first_block)
                 ELSE [free_map |-> fs.free_map, fat |-> fs.fat,
                       disk_mem |-> fs.disk_mem]
        ns1 == [fs.nodes EXCEPT ![parent] = DirNode(@.name, Del(@.children, name))]
        oft1 == Del(fs.open_file_table, name)
    IN Result([fs EXCEPT !.nodes = Collect(ns1, oft1),
                         !.open_file_table = oft1,
                         !.free_map = freed.free_map,
                         !.fat = freed.fat,
                         !.disk_mem = freed.disk_mem], "ok", TRUE)

\* the target directory and name mv settles on; dir = None with an error
MvTarget(fs, src_name, dest_path) ==
    LET d == ResolvePath(fs, dest_path) IN
    IF d.raised THEN [err |-> "KeyError", dir |-> None, name |-> NoneName]
    ELSE IF d.node = None /\ d.name = "/"
    THEN [err |-> "", dir |-> 0, name |-> src_name]
    ELSE IF d.node = None /\ d.name = "."
    THEN [err |-> "", dir |-> GetCurrentDirNode(fs), name |-> src_name]
    ELSE IF d.node # None
    THEN IF ~IsDir(fs.nodes, d.node)
         THEN [err |-> "KeyError", dir |-> None, name |-> NoneName]
         ELSE IF HasChild(fs.nodes, d.node, d.name)
         THEN IF IsDir(fs.nodes, Kids(fs.nodes, d.node)[d.name])
              THEN [err |-> "", dir |-> Kids(fs.nodes, d.node)[d.name],
                    name |-> src_name]
              ELSE [err |-> "already-exists", dir |-> None, name |-> NoneName]
         ELSE [err |-> "", dir |-> d.node, name |-> d.name]
    ELSE [err |-> "invalid-destination", dir |-> None, name |-> NoneName]

\* Mv that attaches a new empty file in place of the file it detached
MvAsNewFile(fs, src_path, dest_path) ==
    LET s == ResolvePath(fs, src_path) IN
    IF s.raised THEN Raised(fs)
    ELSE IF s.node = None THEN Result(fs, "not-found", FALSE)
    ELSE IF ~IsDir(fs.nodes, s.node) THEN Raised(fs)
    ELSE IF ~HasChild(fs.nodes, s.node, s.name) THEN Result(fs, "not-found", FALSE)
    ELSE
    LET t == MvTarget(fs, s.name, dest_path) IN
    IF t.err = "KeyError" THEN Raised(fs)
    ELSE IF t.err # "" THEN Result(fs, t.err, FALSE)
    ELSE IF ~IsDir(fs.nodes, t.dir) THEN Raised(fs)
    ELSE IF HasChild(fs.nodes, t.dir, t.name)
    THEN Result(fs, "already-exists", FALSE)
    ELSE
    LET entry == Kids(fs.nodes, s.node)[s.name]
        ns1 == [fs.nodes EXCEPT ![s.node] = DirNode(@.name, Del(@.children, s.name))]
        ns2 == [ns1 EXCEPT ![entry] = IF IsFile(ns1, entry)
                                      THEN FileNode(t.name, 0, -1)
                                      ELSE DirNode(t.name, @.children)]
        ns3 == [ns2 EXCEPT ![t.dir] = DirNode(@.name, Put(@.children, t.name, entry))]
        oft1 == Del(fs.open_file_table, s.name)
    IN Result([fs EXCEPT !.nodes = Collect(ns3, oft1),
                         !.open_file_table = oft1], "ok", TRUE)

Mv(fs, src_path, dest_path) ==
    LET s == ResolvePath(fs, src_path) IN
    IF s.raised THEN Raised(fs)
    ELSE IF s.node = None THEN Result(fs, "not-found", FALSE)
    ELSE IF ~IsDir(fs.nodes, s.node) THEN Raised(fs)
    ELSE IF ~HasChild(fs.nodes, s.node, s.name) THEN Result(fs, "not-found", FALSE)
    ELSE
    LET t == MvTarget(fs, s.name, dest_path) IN
    IF t.err = "KeyError" THEN Raised(fs)
    ELSE IF t.err # "" THEN Result(fs, t.err, FALSE)
    ELSE IF ~IsDir(fs.nodes, t.dir) THEN Raised(fs)
    ELSE IF HasChild(fs.nodes, t.dir, t.name)
    THEN Result(fs, "already-exists", FALSE)
    ELSE
    LET entry == Kids(fs.nodes, s.node)[s.name]
        \* entry = src_parent["children"].pop(src_name)
        ns1 == [fs.nodes EXCEPT ![s.node] = DirNode(@.name, Del(@.children, s.name))]
        \* entry["name"] = target_name
        ns2 == [ns1 EXCEPT ![entry].name = t.name]
        \* target_dir["children"][target_name] = entry
        ns3 == [ns2 EXCEPT ![t.dir] = DirNode(@.name, Put(@.children, t.name, entry))]
        oft1 == Del(fs.open_file_table, s.name)
    IN Result([fs EXCEPT !.nodes = Collect(ns3, oft1),
                         !.open_file_table = oft1], "ok", TRUE)

\* Dfs that does not go down into the directories it meets
DfsTopOnly(ns, node, path_so_far, name) ==
    IF ~IsDir(ns, node) THEN {}
    ELSE UNION {
           (IF child_name = name
            THEN {[path |-> Append(path_so_far, child_name),
                   type |-> ns[Kids(ns, node)[child_name]].type]}
            ELSE {}) :
           child_name \in DOMAIN Kids(ns, node)}

RECURSIVE Dfs(_, _, _, _)
\* the matches below node: the path from / as a sequence of names, and the kind
Dfs(ns, node, path_so_far, name) ==
    IF ~IsDir(ns, node) THEN {}
    ELSE UNION {
           (IF child_name = name
            THEN {[path |-> Append(path_so_far, child_name),
                   type |-> ns[Kids(ns, node)[child_name]].type]}
            ELSE {})
           \cup Dfs(ns, Kids(ns, node)[child_name],
                    Append(path_so_far, child_name), name) :
           child_name \in DOMAIN Kids(ns, node)}

RECURSIVE DfsAppends(_, _, _, _)
\* the number of matches.append calls below node, the children in todo
\* still to be visited
DfsAppends(ns, node, name, todo) ==
    IF ~IsDir(ns, node) \/ todo = {} THEN 0
    ELSE LET child_name == CHOOSE x \in todo : TRUE
             child == Kids(ns, node)[child_name]
         IN (IF child_name = name THEN 1 ELSE 0)
            + (IF IsDir(ns, child)
               THEN DfsAppends(ns, child, name, DOMAIN Kids(ns, child)) ELSE 0)
            + DfsAppends(ns, node, name, todo \ {child_name})

\* found holds the matches, a path being the names from / down (printed as
\* "/" and the names joined by "/"); out holds the number of lines printed
SearchFiles(fs, name) ==
    [Result(fs, "ok", FALSE) EXCEPT
        !.found = Dfs(fs.nodes, 0, <<>>, name),
        !.out = <<DfsAppends(fs.nodes, 0, name, DOMAIN Kids(fs.nodes, 0))>>]

RECURSIVE PlaceLoose(_, _, _, _)
\* the nodes only the open-file table refers to, stored after the tree
PlaceLoose(ns, nn, oft, todo) ==
    IF todo = {} THEN [nodes |-> nn, open_file_table |-> oft]
    ELSE LET k == CHOOSE x \in todo : TRUE
             same == {x \in todo : oft[x] = oft[k]}
             c == NewId(nn)
         IN PlaceLoose(ns, [nn EXCEPT ![c] = ns[oft[k]]],
                       [x \in DOMAIN oft |-> IF x \in same THEN c ELSE oft[x]],
                       todo \ same)

\* Object identities carry no meaning: the objects are numbered again in
\* the order of the tree, the references of the open-file table following
Renumber(fs) ==
    LET ns == fs.nodes
        oft == fs.open_file_table
        nn == Install([i \in NodeIds |-> NoNode], 0, TreeOf(ns, 0))
        intree == {k \in DOMAIN oft : oft[k] \in TreeIds(ns)}
        oft1 == [k \in DOMAIN oft |->
                   IF k \in intree THEN Locate(ns, nn, 0, 0, oft[k]) ELSE oft[k]]
        r == PlaceLoose(ns, nn, oft1, (DOMAIN oft) \ intree)
    IN [fs EXCEPT !.nodes = r.nodes, !.open_file_table = r.open_file_table]

\* ------------------------------------------------------------------ actions
CdArgs == Names \cup {"..", "/"}
SearchArgs == Names \cup {"/"}

SetObject(fs) ==
    /\ nodes' = fs.nodes
    /\ current_path' = fs.current_path
    /\ free_map' = fs.free_map
    /\ fat' = fs.fat
    /\ open_file_table' = fs.open_file_table
    /\ disk_mem' = fs.disk_mem

\* _save_state: the metadata file, then the image file
SaveState(fs) ==
    /\ meta_file' = SaveMetadata(fs)
    /\ disk_file' = SaveDiskImage(fs)

\* a command of the prompt has run: an uncaught KeyError ends the process
\* (no final save), anything else returns to the prompt
Dispatch(r) ==
    /\ pc = "run"
    /\ IF r.res = "KeyError"
       THEN /\ pc' = "off"
            /\ SetObject(FreshFS)
            /\ UNCHANGED <<meta_file, disk_file>>
       ELSE /\ pc' = "run"
            /\ SetObject(Renumber(r.fs))
            /\ IF r.saved THEN SaveState(r.fs)
               ELSE UNCHANGED <<meta_file, disk_file>>

\* a new node is needed only when the command gets as far as creating one
CanCreate(name) ==
    IF FreeIds(nodes) # {} THEN TRUE
    ELSE IF ~CurDirUsable(FS) THEN TRUE
    ELSE HasChild(nodes, GetCurrentDirNode(FS), name)

\* main(): fs = FileSystem(); fs.init_filesystem()
Startup ==
    /\ pc = "off"
    /\ LET r == InitFilesystem(FreshFS, meta_file, disk_file) IN
       /\ SetObject(r.fs)
       /\ IF r.saved THEN SaveState(r.fs) ELSE UNCHANGED <<meta_file, disk_file>>
    /\ pc' = "run"

DoMkdir == \E n \in DirNames : CanCreate(n) /\ Dispatch(Mkdir(FS, n))
DoCd == \E n \in CdArgs : Dispatch(Cd(FS, n))
DoLs == Dispatch(Ls(FS))
DoCreate == \E n \in FileNames : CanCreate(n) /\ Dispatch(CreateFile(FS, n))
DoOpen == \E n \in Names : Dispatch(OpenFile(FS, n))
DoClose == \E n \in Names : Dispatch(CloseFile(FS, n))
DoWrite == \E n \in Names, d \in Payloads : Dispatch(WriteFile(FS, n, d))
DoRead == \E n \in Names : Dispatch(ReadFile(FS, n))
DoDelete == \E n \in Names : Dispatch(DeleteFile(FS, n))
DoMv == \E s \in SrcPaths, d \in DstPaths : Dispatch(Mv(FS, s, d))
DoSearch == \E n \in SearchArgs : Dispatch(SearchFiles(FS, n))

\* exit: fs.shutdown() saves, the process ends
DoExit ==
    /\ pc = "run"
    /\ SaveState(FS)
    /\ pc' = "off"
    /\ SetObject(FreshFS)

\* between two runs one of the two files is lost
RemoveMetaFile ==
    /\ pc = "off"
    /\ meta_file.present
    /\ meta_file' = NoFile
    /\ UNCHANGED <<nodes, current_path, free_map, fat, open_file_table,
                   disk_mem, disk_file, pc>>

RemoveDiskFile ==
    /\ pc = "off"
    /\ disk_file.present
    /\ disk_file' = NoFile
    /\ UNCHANGED <<nodes, current_path, free_map, fat, open_file_table,
                   disk_mem, meta_file, pc>>

Init ==
    /\ nodes = FreshFS.nodes
    /\ current_path = FreshFS.current_path
    /\ free_map = FreshFS.free_map
    /\ fat = FreshFS.fat
    /\ open_file_table = FreshFS.open_file_table
    /\ disk_mem = FreshFS.disk_mem
    /\ meta_file = NoFile
    /\ disk_file = NoFile
    /\ pc = "off"

Next ==
    \/ Startup
    \/ DoMkdir
    \/ DoCd
    \/ DoLs
    \/ DoCreate
    \/ DoOpen
    \/ DoClose
    \/ DoWrite
    \/ DoRead
    \/ DoDelete
    \/ DoMv
    \/ DoSearch

Spec == Init /\ [][Next]_vars

\* the same with runs that end by exit and files lost between runs
NextRestart ==
    \/ Next
    \/ DoExit
    \/ RemoveMetaFile
    \/ RemoveDiskFile

SpecRestart == Init /\ [][NextRestart]_vars

\* ================================================================== claims
Running == pc = "run"
CurDir == GetCurrentDirNode(FS)
\* the names of the files of the current directory
FilesHere ==
    IF Running /\ CurDirUsable(FS)
    THEN {n \in Names : HasChild(nodes, CurDir, n) /\ IsFile(nodes, Kids(nodes, CurDir)[n])}
    ELSE {}
\* used = number of allocated blocks * BLOCK_SIZE
Used == (NUM_BLOCKS - FreeCount(free_map)) * BLOCK_SIZE
\* no file other than the one named f here is open under the key f
NoOtherOpen(f) ==
    f \in DOMAIN open_file_table => open_file_table[f] = Kids(nodes, CurDir)[f]

\* the bytes read by: open f; write f D; close f; open f; read f
RoundTrip(fs, f, D) ==
    LET s1 == OpenFile(fs, f).fs
        s2 == WriteFile(s1, f, D).fs
        s3 == CloseFile(s2, f).fs
        s4 == OpenFile(s3, f).fs
    IN ReadFile(s4, f).out

\* C1 as stated: in every reachable state, for every file f of the current
\* directory and every payload D that fits the free space, open f; write f D;
\* close f; open f; read f reads exactly D
C1_RoundTripAnyState ==
    \A f \in FilesHere, D \in AllPayloads :
        Len(D) <= DISK_SIZE - Used => RoundTrip(FS, f, D) = D

\* C1 amended: the same, provided no other file is open under the name f
C1_RoundTrip ==
    \A f \in FilesHere, D \in AllPayloads :
        (Len(D) <= DISK_SIZE - Used /\ NoOtherOpen(f)) => RoundTrip(FS, f, D) = D

\* a payload of more than one block that takes all the free space is
\* written to a file here, and the round trip reads it back
C1_Witness ==
    \E f \in FilesHere, D \in AllPayloads :
        /\ Len(D) > BLOCK_SIZE
        /\ Len(D) = DISK_SIZE - Used
        /\ NoOtherOpen(f)
        /\ ReadFile(OpenFile(FS, f).fs, f).out # D
        /\ WriteFile(OpenFile(FS, f).fs, f, D).res = "ok"
        /\ RoundTrip(FS, f, D) = D

\* ------------------------------------------------------------------------
Errors == {"already-exists", "not-found", "is-directory", "not-a-directory",
           "already-open", "not-open", "not-empty", "no-space",
           "invalid-destination"}

\* the command left the object as it was and saved nothing
Untouched(r) == r.fs = FS /\ ~r.saved
FailsClean(r) == r.res \in Errors => Untouched(r)

\* C2: a mkdir, create, open, close, read, write, delete or mv that ends in
\* an error leaves the tree, every size and first_block, the FAT, the free
\* map, the block bytes, the open-file table and the current path as they were
C2_FailureAtomic ==
    Running =>
        /\ \A n \in Names :
             /\ CanCreate(n) => FailsClean(Mkdir(FS, n)) /\ FailsClean(CreateFile(FS, n))
             /\ FailsClean(OpenFile(FS, n))
             /\ FailsClean(CloseFile(FS, n))
             /\ FailsClean(ReadFile(FS, n))
             /\ FailsClean(DeleteFile(FS, n))
             /\ \A D \in AllPayloads : FailsClean(WriteFile(FS, n, D))
        /\ \A s \in PathInputs, d \in PathInputs : FailsClean(Mv(FS, s, d))

\* a write to an open file that already has a block fails for lack of space
\* while a block is still free, and an mv fails on an invalid destination
C2_Witness ==
    /\ Running
    /\ FreeCount(free_map) > 0
    /\ \E n \in DOMAIN open_file_table, D \in AllPayloads :
         /\ nodes[open_file_table[n]].first_block # -1
         /\ WriteFile(FS, n, D).res = "no-space"
    /\ \E s \in PathInputs, d \in PathInputs : Mv(FS, s, d).res = "invalid-destination"

\* C3: for every block i, free_map[i] is true exactly when fat[i] = -2, and
\* false exactly when fat[i] is -1 or a block index
C3_FatFreeMapAgree ==
    \A i \in Blocks :
        /\ free_map[i] <=> fat[i] = -2
        /\ ~free_map[i] <=> (fat[i] = -1 \/ fat[i] \in Blocks)

\* after a delete freed the lowest block, a higher block is still the end
\* of a chain
C3_Witness ==
    /\ Running
    /\ \E i \in Blocks, j \in Blocks : i < j /\ free_map[i] /\ ~free_map[j] /\ fat[j] = -1

\* ------------------------------------------------------------------------
\* the file objects: those of the tree and those still held open
Files == {i \in NodeIds : IsFile(nodes, i)}
TreeFiles == {i \in TreeIds(nodes) : IsFile(nodes, i)}

RECURSIVE ChainWalk(_, _, _)
\* following ft from b: the blocks met, and whether the walk ended at -1
\* without meeting a block twice, a free block or no block at all
ChainWalk(ft, b, seen) ==
    IF b = -1 THEN [ok |-> TRUE, blocks |-> seen]
    ELSE IF b \notin Blocks \/ b \in seen THEN [ok |-> FALSE, blocks |-> seen]
    ELSE IF ft[b] = -2 THEN [ok |-> FALSE, blocks |-> seen \cup {b}]
    ELSE ChainWalk(ft, ft[b], seen \cup {b})

ChainOf(i) == ChainWalk(fat, nodes[i].first_block, {})

\* C4: the chain of every file ends at -1 without visiting a block twice or
\* reaching a free entry, and no block lies on the chains of two files
C4_ChainsDisjoint ==
    /\ \A i \in Files : ChainOf(i).ok
    /\ \A i \in Files, j \in Files :
          i # j => ChainOf(i).blocks \cap ChainOf(j).blocks = {}

\* two files own a block each, the file of the lower block created later
C4_Witness ==
    /\ Running
    /\ \E i \in TreeFiles, j \in TreeFiles :
          /\ i < j
          /\ nodes[i].first_block # -1
          /\ nodes[j].first_block # -1
          /\ nodes[i].first_block > nodes[j].first_block

\* the files of the tree that have block b on their chain
OwnersOf(b) == {i \in TreeFiles : b \in ChainOf(i).blocks}

\* C5 as stated: a block is allocated if and only if it lies on the chain of
\* exactly one file of the tree rooted at /
C5_BlockOwnership ==
    \A b \in Blocks : ~free_map[b] <=> Cardinality(OwnersOf(b)) = 1

\* ------------------------------------------------------------------------
MaxWrites == 2
WriteSeqs == UNION {[1 .. k -> AllPayloads] : k \in 0 .. MaxWrites}

RECURSIVE WriteAll(_, _, _)
\* the object after write f D for every D of ws in turn
WriteAll(fs, f, ws) ==
    IF ws = <<>> THEN fs ELSE WriteAll(WriteFile(fs, f, Head(ws)).fs, f, Tail(ws))

\* the object after: create f; open f; the writes of ws to f; delete f
CreateWriteDelete(fs, f, ws) ==
    DeleteFile(WriteAll(OpenFile(CreateFile(fs, f).fs, f).fs, f, ws), f).fs

\* the names that create can be given here: not yet in the current directory
Creatable ==
    IF Running /\ CurDirUsable(FS) /\ FreeIds(nodes) # {}
    THEN {n \in Names : ~HasChild(nodes, CurDir, n)}
    ELSE {}

\* a successful delete of a file frees every block of its chain, the free
\* count rising by the chain's length
DeleteFreesChain ==
    \A n \in FilesHere :
        LET chain == GetBlockChain(fat, nodes[Kids(nodes, CurDir)[n]].first_block)
            r == DeleteFile(FS, n)
        IN /\ r.res = "ok"
           /\ \A k \in 1 .. Len(chain) :
                 r.fs.free_map[chain[k]] /\ r.fs.fat[chain[k]] = -2
           /\ FreeCount(r.fs.free_map) = FreeCount(free_map) + Len(chain)

\* C6 as stated: a successful delete of a file frees its whole chain, and
\* create f, any writes to f, delete f brings the free count back to what it
\* was before the create
C6_DeleteReclaimsAnyState ==
    /\ DeleteFreesChain
    /\ \A f \in Creatable, ws \in WriteSeqs :
          FreeCount(CreateWriteDelete(FS, f, ws).free_map) = FreeCount(free_map)

\* C6 amended: the same, provided no other file is open under the name f
\* when f is created
C6_DeleteReclaims ==
    /\ DeleteFreesChain
    /\ \A f \in Creatable \ DOMAIN open_file_table, ws \in WriteSeqs :
          FreeCount(CreateWriteDelete(FS, f, ws).free_map) = FreeCount(free_map)

\* a file here that owns a block can be deleted, and in the same state a
\* file can be created and written with success before it is deleted
C6_Witness ==
    /\ \E n \in FilesHere :
          Len(GetBlockChain(fat, nodes[Kids(nodes, CurDir)[n]].first_block)) > 0
    /\ \E f \in Creatable \ DOMAIN open_file_table, D \in AllPayloads :
          /\ Len(D) > 0
          /\ WriteFile(OpenFile(CreateFile(FS, f).fs, f).fs, f, D).res = "ok"

\* what a core started from the two files would hold
Reloaded == InitFilesystem(FreshFS, meta_file, disk_file).fs

\* the part of the object that is saved
Persistent(fs) ==
    [root |-> TreeOf(fs.nodes, 0), fat |-> fs.fat, free_map |-> fs.free_map,
     disk_mem |-> fs.disk_mem]

\* the command saved nothing and left the saved part of the object alone
SavesNothing(r) ==
    r.res # "KeyError" => ~r.saved /\ Persistent(r.fs) = Persistent(FS)

\* C7: at every prompt a core started from the saved files would hold the
\* root tree, fat, free_map and block bytes of the running core, and cd, ls,
\* open, close, read and search leave the saved files and what they save alone
C7_PersistAfterMutate ==
    Running =>
        /\ meta_file.present
        /\ Persistent(Reloaded) = Persistent(FS)
        /\ SavesNothing(Ls(FS))
        /\ \A n \in CdArgs : SavesNothing(Cd(FS, n))
        /\ \A n \in Names :
              /\ SavesNothing(OpenFile(FS, n))
              /\ SavesNothing(CloseFile(FS, n))
              /\ SavesNothing(ReadFile(FS, n))
              /\ SavesNothing(SearchFiles(FS, n))

\* after a write of more than a block to a file of a directory below the
\* root, with the working directory below the root
C7_Witness ==
    /\ Running
    /\ disk_file.present
    /\ \E i \in TreeFiles :
          /\ nodes[i].size > BLOCK_SIZE
          /\ \A n \in DOMAIN Kids(nodes, 0) : Kids(nodes, 0)[n] # i
    /\ \E b \in DOMAIN disk_mem : disk_mem[b] # 0
    /\ current_path # <<>>

FullyReset ==
    /\ TreeOf(nodes, 0) = TreeOf(FreshFS.nodes, 0)
    /\ \A i \in Blocks : free_map[i] /\ fat[i] = -2
    /\ \A b \in DOMAIN disk_mem : disk_mem[b] = 0

\* C8 as stated: a start with one of the two files absent and the other
\* present brings the core up fully reset: empty root, every block free,
\* every FAT entry -2, every byte zero
C8_MissingFileResets ==
    [][(pc = "off" /\ pc' = "run" /\ meta_file.present # disk_file.present)
          => FullyReset']_vars

\* ------------------------------------------------------------------------
\* the bytes read by open name; read name in the directory dir
ReadAt(fs, dir, name) == ReadFile(OpenAt(fs, dir, name).fs, name).out

\* the pairs of paths for which mv moves a file here
FileMoves ==
    IF ~Running THEN {}
    ELSE {m \in PathInputs \X PathInputs :
            /\ Mv(FS, m[1], m[2]).res = "ok"
            /\ IsFile(nodes, Kids(nodes, ResolvePath(FS, m[1]).node)
                                 [ResolvePath(FS, m[1]).name])}

\* mv src dst changes no FAT entry, free-map entry or block byte and no
\* file's size or first_block
MvFrame(src, dst) ==
    LET r == Mv(FS, src, dst) IN
    /\ r.fs.fat = fat
    /\ r.fs.free_map = free_map
    /\ r.fs.disk_mem = disk_mem
    /\ \A i \in TreeFiles : IsFile(r.fs.nodes, i)
    /\ \A i \in Files :
          IsFile(r.fs.nodes, i) =>
              /\ r.fs.nodes[i].size = nodes[i].size
              /\ r.fs.nodes[i].first_block = nodes[i].first_block

\* open and read at the new place give what open and read at the old place
\* gave before the mv
MvSameBytes(src, dst) ==
    LET s == ResolvePath(FS, src)
        t == MvTarget(FS, s.name, dst)
    IN ReadAt(Mv(FS, src, dst).fs, t.dir, t.name) = ReadAt(FS, s.node, s.name)

\* no other file is open under the old name before the mv, none under the
\* new name after it
MvKeysClear(src, dst) ==
    LET s == ResolvePath(FS, src)
        t == MvTarget(FS, s.name, dst)
    IN /\ s.name \in DOMAIN open_file_table
            => open_file_table[s.name] = Kids(nodes, s.node)[s.name]
       /\ t.name \notin DOMAIN Mv(FS, src, dst).fs.open_file_table

\* C9 as stated: a successful mv of a file changes no FAT entry, free-map
\* entry, block byte, size or first_block, and open and read at the new
\* place return the bytes open and read at the old place returned before
C9_MvPreservesAnyState ==
    \A m \in FileMoves : MvFrame(m[1], m[2]) /\ MvSameBytes(m[1], m[2])

\* C9 amended: the same, the bytes read being equal provided no other file
\* is open under the old name before the mv or under the new name after it
C9_MvPreserves ==
    \A m \in FileMoves :
        /\ MvFrame(m[1], m[2])
        /\ MvKeysClear(m[1], m[2]) => MvSameBytes(m[1], m[2])

\* a file that holds bytes moves to another directory under another name
C9_Witness ==
    \E m \in FileMoves :
        LET s == ResolvePath(FS, m[1])
            t == MvTarget(FS, s.name, m[2])
        IN /\ MvKeysClear(m[1], m[2])
           /\ t.dir # s.node
           /\ t.name # s.name
           /\ ReadAt(FS, s.node, s.name) # <<>>

\* the number of blocks on the chain of file i
ChainLen(fs, i) == Len(GetBlockChain(fs.fat, fs.nodes[i].first_block))
Need(L) == Ceil(Max(L, 1), BLOCK_SIZE)

\* C10: after a successful write of L bytes the file's size is L and its
\* chain has at least ceil(max(L,1) / BLOCK_SIZE) blocks, exactly that many
\* when the chain had to grow
C10_SizeChain ==
    Running =>
        \A n \in DOMAIN open_file_table, D \in AllPayloads :
            LET r == WriteFile(FS, n, D)
                i == open_file_table[n]
            IN r.res = "ok" =>
                  /\ r.fs.nodes[i].size = Len(D)
                  /\ ChainLen(r.fs, i) >= Need(Len(D))
                  /\ Need(Len(D)) > ChainLen(FS, i) => ChainLen(r.fs, i) = Need(Len(D))

\* a file with one block grows to two, and an empty payload is written to
\* a file that has no block
C10_Witness ==
    /\ Running
    /\ \E n \in DOMAIN open_file_table, D \in AllPayloads :
          /\ WriteFile(FS, n, D).res = "ok"
          /\ ChainLen(FS, open_file_table[n]) = 1
          /\ Need(Len(D)) = 2
    /\ \E n \in DOMAIN open_file_table :
          /\ WriteFile(FS, n, <<>>).res = "ok"
          /\ ChainLen(FS, open_file_table[n]) = 0

\* ------------------------------------------------------------------------
Keys == DOMAIN open_file_table

\* the command left the table as it was, unless the process ended
TableKept(r) == r.res # "KeyError" => r.fs.open_file_table = open_file_table

\* the command took the key n out of the table and left the other entries,
\* unless the process ended
KeyDropped(r, n) ==
    r.res # "KeyError" => r.fs.open_file_table = Del(open_file_table, n)

\* read n and write n do nothing but answer not-open when n is no key, and
\* go through when n is a key
ReadWriteGated(n) ==
    IF n \in Keys
    THEN /\ ReadFile(FS, n).res = "ok"
         /\ \A D \in AllPayloads : WriteFile(FS, n, D).res \in {"ok", "no-space"}
    ELSE /\ ReadFile(FS, n) = Result(FS, "not-open", FALSE)
         /\ \A D \in AllPayloads : WriteFile(FS, n, D) = Result(FS, "not-open", FALSE)

\* n becomes a key by a successful open n and by nothing else; open n on a
\* key fails and leaves the entry
KeyEnters(n) ==
    LET r == OpenFile(FS, n) IN
    /\ n \in Keys => r.res # "ok"
    /\ IF r.res = "ok"
       THEN /\ n \in DOMAIN r.fs.open_file_table
            /\ Del(r.fs.open_file_table, n) = open_file_table
       ELSE TableKept(r)
    /\ CanCreate(n) => TableKept(Mkdir(FS, n)) /\ TableKept(CreateFile(FS, n))
    /\ \A a \in CdArgs : TableKept(Cd(FS, a))
    /\ TableKept(Ls(FS)) /\ TableKept(ReadFile(FS, n)) /\ TableKept(SearchFiles(FS, n))
    /\ \A D \in AllPayloads : TableKept(WriteFile(FS, n, D))

\* n stops being a key by close n, by a successful delete n and by a
\* successful mv of a source whose last name is n, and by nothing else;
\* close n on a name that is no key fails
KeyLeaves(n) ==
    /\ IF n \in Keys
       THEN CloseFile(FS, n).res = "ok" /\ KeyDropped(CloseFile(FS, n), n)
       ELSE CloseFile(FS, n) = Result(FS, "not-open", FALSE)
    /\ IF DeleteFile(FS, n).res = "ok"
       THEN KeyDropped(DeleteFile(FS, n), n)
       ELSE TableKept(DeleteFile(FS, n))
    /\ \A s \in PathInputs, d \in PathInputs :
          Mv(FS, s, d).res = "ok" /\ ResolvePath(FS, s).name = n
              => KeyDropped(Mv(FS, s, d), n)

\* C11: within one run of the program, read n and write n take effect only
\* when n is a key of the open-file table; n becomes a key only by a
\* successful open n and stops being one only by close n, a successful
\* delete n or a successful mv whose source's last name is n; open n on a
\* key fails and leaves the entry, close n on a name that is no key fails
C11_OpenFileGating ==
    Running =>
        /\ \A n \in Names : ReadWriteGated(n) /\ KeyEnters(n) /\ KeyLeaves(n)
        /\ \A s \in PathInputs, d \in PathInputs :
              Mv(FS, s, d).res # "ok" => TableKept(Mv(FS, s, d))

\* a file here is open under its name: open answers already-open, read and
\* write go through, and a mv of the file takes the key out
C11_Witness ==
    /\ Running /\ CurDirUsable(FS)
    /\ \E n \in FilesHere :
          /\ n \in Keys
          /\ OpenFile(FS, n).res = "already-open"
          /\ ReadFile(FS, n).out # <<>>
          /\ \E m \in FileMoves :
                /\ ResolvePath(FS, m[1]).name = n
                /\ n \notin DOMAIN Mv(FS, m[1], m[2]).fs.open_file_table
    /\ \E k \in Names \ Keys : CloseFile(FS, k).res = "not-open"

\* ------------------------------------------------------------------------
\* the names of the directories of the current directory
DirsHere ==
    IF Running /\ CurDirUsable(FS)
    THEN {n \in DOMAIN Kids(nodes, CurDir) : IsDir(nodes, Kids(nodes, CurDir)[n])}
    ELSE {}

\* delete n took the child n out of the current directory and left every
\* other node of the tree, the FAT, the free map and the bytes as they were
RemovesOnlyChild(r, n) ==
    LET e == Kids(nodes, CurDir)[n] IN
    /\ r.res = "ok" /\ r.saved
    /\ Kids(r.fs.nodes, CurDir) = Del(Kids(nodes, CurDir), n)
    /\ r.fs.nodes[CurDir].name = nodes[CurDir].name
    /\ \A i \in TreeIds(nodes) \ {e, CurDir} : r.fs.nodes[i] = nodes[i]
    /\ TreeIds(r.fs.nodes) = TreeIds(nodes) \ {e}
    /\ r.fs.fat = fat /\ r.fs.free_map = free_map /\ r.fs.disk_mem = disk_mem
    /\ r.fs.current_path = current_path

\* C12: delete n on a directory that has a child answers not-empty and
\* changes nothing; delete n on an empty directory removes exactly that child
\* of the current directory and changes no FAT entry, free-map entry or byte
C12_DirDeleteOnlyEmpty ==
    \A n \in DirsHere :
        IF DOMAIN Kids(nodes, Kids(nodes, CurDir)[n]) # {}
        THEN DeleteFile(FS, n) = Result(FS, "not-empty", FALSE)
        ELSE RemovesOnlyChild(DeleteFile(FS, n), n)

\* the current directory holds an empty directory and one that holds a file
\* with bytes on the disk; delete removes the first and refuses the second
C12_Witness ==
    \E n \in DirsHere, k \in DirsHere :
        /\ DOMAIN Kids(nodes, Kids(nodes, CurDir)[n]) = {}
        /\ DeleteFile(FS, n).res = "ok"
        /\ \E c \in DOMAIN Kids(nodes, Kids(nodes, CurDir)[k]) :
              /\ IsFile(nodes, Kids(nodes, Kids(nodes, CurDir)[k])[c])
              /\ nodes[Kids(nodes, Kids(nodes, CurDir)[k])[c]].size > 0
        /\ DeleteFile(FS, k).res = "not-empty"

\* ------------------------------------------------------------------------
\* The allocator alone, on a device of AllocBlocks blocks: chains are begun
\* and grown as write_file does and freed as delete_file does
AllocBlocks == 4
AllocIndices == 0 .. (AllocBlocks - 1)

\* the first blocks of the chains: allocated blocks no block leads to
Heads == {b \in DOMAIN fat : fat[b] # -2 /\ \A c \in DOMAIN fat : fat[c] # b}

InitAlloc ==
    /\ nodes = FreshFS.nodes
    /\ current_path = FreshFS.current_path
    /\ open_file_table = FreshFS.open_file_table
    /\ free_map = [i \in AllocIndices |-> TRUE]
    /\ fat = [i \in AllocIndices |-> -2]
    /\ disk_mem = [i \in 0 .. (AllocBlocks * BLOCK_SIZE - 1) |-> 0]
    /\ meta_file = NoFile
    /\ disk_file = NoFile
    /\ pc = "alloc"

\* write_file growing a chain, or beginning one (first_block = -1)
ExtendStep ==
    /\ pc = "alloc"
    /\ \E first \in Heads \cup {-1}, n \in 1 .. (AllocBlocks + 1) :
          LET e == ExtendChain(free_map, fat, first, n) IN
          /\ free_map' = e.free_map
          /\ fat' = e.fat
    /\ UNCHANGED <<nodes, current_path, open_file_table, disk_mem,
                   meta_file, disk_file, pc>>

\* delete_file freeing the chain of a file
ReleaseStep ==
    /\ pc = "alloc"
    /\ \E b \in Heads :
          LET f == FreeChain(free_map, fat, disk_mem, b) IN
          /\ free_map' = f.free_map
          /\ fat' = f.fat
          /\ disk_mem' = f.disk_mem
    /\ UNCHANGED <<nodes, current_path, open_file_table, meta_file, disk_file, pc>>

NextAlloc ==
    \/ ExtendStep
    \/ ReleaseStep

SpecAlloc == InitAlloc /\ [][NextAlloc]_vars

\* the n lowest-numbered free blocks
LowestFree(n) ==
    {i \in FreeIndices(free_map) :
        Cardinality({j \in FreeIndices(free_map) : j < i}) < n}

\* the request was granted: exactly the n lowest free blocks, in ascending
\* order, marked allocated and linked in that order, the last one to -1,
\* every other entry as before
Granted(a, n) ==
    /\ a.ok
    /\ Len(a.allocated) = n
    /\ {a.allocated[k] : k \in 1 .. n} = LowestFree(n)
    /\ \A k \in 1 .. (n - 1) : a.allocated[k] < a.allocated[k + 1]
    /\ \A i \in DOMAIN free_map :
          a.free_map[i] = (IF i \in LowestFree(n) THEN FALSE ELSE free_map[i])
    /\ \A k \in 1 .. n :
          a.fat[a.allocated[k]] = (IF k = n THEN -1 ELSE a.allocated[k + 1])
    /\ \A i \in (DOMAIN fat) \ LowestFree(n) : a.fat[i] = fat[i]

\* C13: a request for n blocks with at least n free takes exactly the n
\* lowest-numbered free blocks, marks them allocated and links them in
\* ascending order with the last one set to -1; a request with fewer than n
\* free fails and changes no FAT or free-map entry
C13_LowestAllOrNothing ==
    \A n \in 1 .. (Cardinality(DOMAIN free_map) + 1) :
        LET a == AllocateBlocks(free_map, fat, n) IN
        IF FreeCount(free_map) >= n
        THEN Granted(a, n)
        ELSE ~a.ok /\ a.free_map = free_map /\ a.fat = fat

\* the free blocks are not the lowest ones and not adjacent: a request for
\* two is granted across the gap, a request for three is refused
C13_Witness ==
    /\ pc = "alloc"
    /\ FreeIndices(free_map) = {1, 3}
    /\ AllocateBlocks(free_map, fat, 2).allocated = <<1, 3>>
    /\ AllocateBlocks(free_map, fat, 2).fat[1] = 3
    /\ ~AllocateBlocks(free_map, fat, 3).ok

\* ------------------------------------------------------------------------
\* the command freed no block
NoBlockFreed(r) == \A b \in Blocks : ~free_map[b] => ~r.fs.free_map[b]

\* the command shortened the chain of no file that is still there
ChainsKept(r) ==
    \A i \in Files :
        IsFile(r.fs.nodes, i) => ChainLen(r.fs, i) >= ChainLen(FS, i)

\* C14: a block goes from allocated to free only during a successful delete
\* of a file, and no command shortens the chain of a file that stays; a
\* write keeps or grows the chain even when the new payload is shorter
C14_FreedOnlyByDelete ==
    Running =>
        /\ \A n \in Names :
              /\ CanCreate(n) =>
                    /\ NoBlockFreed(Mkdir(FS, n)) /\ ChainsKept(Mkdir(FS, n))
                    /\ NoBlockFreed(CreateFile(FS, n)) /\ ChainsKept(CreateFile(FS, n))
              /\ NoBlockFreed(OpenFile(FS, n)) /\ ChainsKept(OpenFile(FS, n))
              /\ NoBlockFreed(CloseFile(FS, n)) /\ ChainsKept(CloseFile(FS, n))
              /\ NoBlockFreed(ReadFile(FS, n)) /\ ChainsKept(ReadFile(FS, n))
              /\ NoBlockFreed(SearchFiles(FS, n)) /\ ChainsKept(SearchFiles(FS, n))
              /\ \A D \in AllPayloads :
                    NoBlockFreed(WriteFile(FS, n, D)) /\ ChainsKept(WriteFile(FS, n, D))
              /\ ChainsKept(DeleteFile(FS, n))
              /\ (DeleteFile(FS, n).res = "ok" /\ n \in FilesHere)
                    \/ NoBlockFreed(DeleteFile(FS, n))
        /\ \A a \in CdArgs : NoBlockFreed(Cd(FS, a)) /\ ChainsKept(Cd(FS, a))
        /\ NoBlockFreed(Ls(FS)) /\ ChainsKept(Ls(FS))
        /\ \A s \in PathInputs, d \in PathInputs :
              NoBlockFreed(Mv(FS, s, d)) /\ ChainsKept(Mv(FS, s, d))

\* a file of two blocks is open here: a write of a payload that fits one
\* block succeeds and leaves both blocks on its chain, and delete frees them
C14_Witness ==
    \E n \in FilesHere \cap Keys :
        LET i == Kids(nodes, CurDir)[n] IN
        /\ open_file_table[n] = i
        /\ ChainLen(FS, i) = 2
        /\ \E D \in AllPayloads :
              /\ Len(D) = 1
              /\ WriteFile(FS, n, D).res = "ok"
              /\ WriteFile(FS, n, D).fs.nodes[i].size = 1
              /\ ChainLen(WriteFile(FS, n, D).fs, i) = 2
        /\ FreeCount(DeleteFile(FS, n).fs.free_map) = FreeCount(free_map) + 2

\* ------------------------------------------------------------------------
\* the sequences of names that can lead from / to a node
TreePaths == UNION {[1 .. k -> Names] : k \in 0 .. MaxNodes}

\* the nodes named q among those that the paths of P lead to from /, each
\* with its path and its kind
NamedAmong(fs, P, q) ==
    {[path |-> p, type |-> fs.nodes[WalkPath(fs.nodes, 0, p)].type] :
        p \in {x \in P : /\ WalkPath(fs.nodes, 0, x) # -2
                         /\ fs.nodes[WalkPath(fs.nodes, 0, x)].name = q}}

\* search q reports exactly the nodes named q that the paths of P lead to,
\* each once, and changes nothing
SearchReports(P, q) ==
    LET r == SearchFiles(FS, q) IN
    /\ r.found = NamedAmong(FS, P, q)
    /\ r.out = <<Cardinality(NamedAmong(FS, P, q))>>
    /\ r.fs = FS /\ ~r.saved

\* the renames of the current directory: mv a b with b a free name here
Renames ==
    IF Running /\ CurDirUsable(FS)
    THEN {m \in Names \X Names :
            /\ m[1] # m[2]
            /\ HasChild(nodes, CurDir, m[1])
            /\ ~HasChild(nodes, CurDir, m[2])
            /\ Mv(FS, Path(FALSE, <<m[1]>>), Path(FALSE, <<m[2]>>)).res = "ok"}
    ELSE {}

\* after mv a b search b reports the moved node at its new path and search a
\* no longer reports the old path
RenameSeen(a, b) ==
    LET kind == nodes[Kids(nodes, CurDir)[a]].type
        fs1 == Mv(FS, Path(FALSE, <<a>>), Path(FALSE, <<b>>)).fs
    IN /\ [path |-> Append(current_path, b), type |-> kind]
              \in SearchFiles(fs1, b).found
       /\ \A x \in SearchFiles(fs1, a).found : x.path # Append(current_path, a)
       /\ SearchFiles(fs1, b).found = NamedAmong(fs1, TreePaths \ {<<>>}, b)
       /\ SearchFiles(fs1, a).found = NamedAmong(fs1, TreePaths \ {<<>>}, a)

\* C15 as stated: search q reports exactly the nodes of the tree rooted at /
\* whose name is q, the root among them, each once with its path and kind,
\* and changes nothing; after a rename mv a b search b reports the moved
\* node at its new path and search a no longer reports it
C15_SearchExactRootIncluded ==
    Running =>
        /\ \A q \in SearchArgs : SearchReports(TreePaths, q)
        /\ \A m \in Renames : RenameSeen(m[1], m[2])

\* C15 amended: the same for the nodes below the root; the root itself,
\* named "/", is never reported
C15_SearchExact ==
    Running =>
        /\ \A q \in SearchArgs : SearchReports(TreePaths \ {<<>>}, q)
        /\ \A m \in Renames : RenameSeen(m[1], m[2])

\* two nodes of one name at different depths, one a file and one a
\* directory, are both reported, and one of them can be renamed
C15_Witness ==
    /\ Running
    /\ \E q \in Names :
          /\ \E x \in SearchFiles(FS, q).found, y \in SearchFiles(FS, q).found :
                Len(x.path) = 1 /\ Len(y.path) = 2 /\ x.type # y.type
          /\ SearchFiles(FS, q).out = <<2>>
    /\ Renames # {}
    /\ current_path # <<>>

\* ------------------------------------------------------------------------
\* the nodes below directory i
Below(ns, i) == ReachFrom(ns, {Kids(ns, i)[n] : n \in DOMAIN Kids(ns, i)})

\* mv src dst, when it succeeds, leaves every node of the tree in the tree,
\* the moved entry a child of the target directory under the target name and
\* no child of its source parent under the old name, and no directory below
\* itself
MvKeepsTree(src, dst) ==
    LET r == Mv(FS, src, dst)
        s == ResolvePath(FS, src)
        t == MvTarget(FS, s.name, dst)
        e == Kids(nodes, s.node)[s.name]
    IN r.res = "ok" =>
          /\ TreeIds(nodes) \subseteq TreeIds(r.fs.nodes)
          /\ HasChild(r.fs.nodes, t.dir, t.name)
          /\ Kids(r.fs.nodes, t.dir)[t.name] = e
          /\ (s.node # t.dir \/ s.name # t.name)
                => ~HasChild(r.fs.nodes, s.node, s.name)
          /\ \A i \in NodeIds :
                IsDir(r.fs.nodes, i) => i \notin Below(r.fs.nodes, i)

\* C16 as stated: after any successful mv, of a file or a directory, to any
\* destination that resolves, the source itself and the places inside it
\* included, the moved entry is a child of the target directory under the
\* target name and no longer a child of its source parent under the old
\* name, every node reachable from / before is reachable after, and no
\* directory is its own descendant
C16_MvKeepsTree ==
    Running => \A src \in PathInputs, dst \in PathInputs : MvKeepsTree(src, dst)

\* ------------------------------------------------------------------------
\* C17 as stated: at every prompt the current path leads, name by name from
\* the root, through directories that exist, so that every command finds its
\* current directory
C17_CurrentPathValid == Running => CurDirUsable(FS)

\* ------------------------------------------------------------------------
\* what the commands that end with _save_state leave when given now
SavingResults ==
    IF ~Running THEN {}
    ELSE {r \in {Mkdir(FS, n) : n \in {x \in DirNames : CanCreate(x)}}
                \cup {CreateFile(FS, n) : n \in {x \in FileNames : CanCreate(x)}}
                \cup {WriteFile(FS, n, D) : n \in Names, D \in Payloads}
                \cup {DeleteFile(FS, n) : n \in Names}
                \cup {Mv(FS, src, dst) : src \in SrcPaths, dst \in DstPaths} :
            r.saved}

\* the process stops inside _save_state, after _save_metadata has written
\* the metadata file and before _save_disk_image writes the image file
StopInSave ==
    /\ pc = "run"
    /\ \E r \in SavingResults :
          /\ meta_file' = SaveMetadata(r.fs)
          /\ disk_file' = disk_file
    /\ pc' = "stopped"
    /\ SetObject(FreshFS)

\* main() once more, on the files that the stop left; the behaviour is
\* followed up to this start and no further
StartAfterStop ==
    /\ pc = "stopped"
    /\ SetObject(InitFilesystem(FreshFS, meta_file, disk_file).fs)
    /\ UNCHANGED <<meta_file, disk_file>>
    /\ pc' = "restarted"

NextCrash ==
    \/ Next
    \/ StopInSave
    \/ StartAfterStop

\* runs that stop inside a save and start again from the files
SpecCrash == Init /\ [][NextCrash]_vars

\* what a core started after that stop would hold
AfterStopInSave(r) == InitFilesystem(FreshFS, SaveMetadata(r.fs), disk_file).fs

\* C18 as stated: when the save that ends a command stops after the metadata
\* file and before the image file, a core started from the files holds the
\* root tree, fat, free_map and block bytes that the running core had just
\* before the command or would have had just after it
C18_StoppedSaveConsistent ==
    \A r \in SavingResults :
        Persistent(AfterStopInSave(r)) \in {Persistent(FS), Persistent(r.fs)}

\* ------------------------------------------------------------------------
\* C19 as stated: every entry of the open-file table refers to a file node
\* that is in the tree rooted at / and whose name is the entry's key
C19_NoDanglingHandles ==
    \A k \in Keys :
        /\ open_file_table[k] \in TreeFiles
        /\ nodes[open_file_table[k]].name = k

\* ------------------------------------------------------------------------
\* byte k of block b
ByteAt(disk, b, k) == disk[b * BLOCK_SIZE + k]

\* every byte of every free block is zero
FreeBlocksZero(fs) ==
    \A b \in Blocks : fs.free_map[b] =>
        \A k \in 0 .. (BLOCK_SIZE - 1) : ByteAt(fs.disk_mem, b, k) = 0

\* every byte of the chain of file i at an offset of size or more is zero
PastSizeZero(fs, i) ==
    LET chain == GetBlockChain(fs.fat, fs.nodes[i].first_block) IN
    \A p \in 1 .. Len(chain), k \in 0 .. (BLOCK_SIZE - 1) :
        (p - 1) * BLOCK_SIZE + k >= fs.nodes[i].size
            => ByteAt(fs.disk_mem, chain[p], k) = 0

\* C20: from a fresh start, at every prompt every byte of every free block
\* is zero, and for every file every byte of its chain at an offset of size
\* or more is zero
C20_ZeroResidue ==
    Running => FreeBlocksZero(FS) /\ \A i \in Files : PastSizeZero(FS, i)

\* a file here keeps two blocks from an earlier longer write and now holds
\* one byte; deleting it leaves the whole device zero and free
C20_Witness ==
    \E n \in FilesHere :
        LET i == Kids(nodes, CurDir)[n] IN
        /\ ChainLen(FS, i) = 2
        /\ nodes[i].size = 1
        /\ ByteAt(disk_mem, nodes[i].first_block, 0) # 0
        /\ DeleteFile(FS, n).res = "ok"
        /\ FreeCount(DeleteFile(FS, n).fs.free_map) = NUM_BLOCKS
        /\ FreeBlocksZero(DeleteFile(FS, n).fs)

====
